---- MODULE Spec2Model ----
(***************************************************************************)
(* Model of package grouper (github.com/danlock/grouper):                  *)
(*   - Group        (grouper.go): a fixed list of funcs, run by Wait       *)
(*   - DynamicGroup (dynamic.go): funcs submitted one by one with Go       *)
(* Each goroutine is a process with a program counter in apc; the caller   *)
(* of Wait is the process wpc, the caller of Go the process gpc.           *)
(* An error is a number, 0 being nil; a value of V is a number, 0 being    *)
(* the zero value of V.                                                    *)
(***************************************************************************)
EXTENDS Integers, Naturals, Sequences, FiniteSets, TLC

MaxTasks == 2   \* most funcs given to New / most calls of Go
MaxWaits == 2   \* most calls of DynamicGroup.Wait

Tasks == 1..MaxTasks
\* the values of V the funcs return: the zero value and another one
Values == {0, 1}
\* the errors the funcs return: nil, err1 and err2 of TestDynamicGroup
Errors == {0, 1, 2}

VARIABLES
    variant,     \* "fixed": a Group; "dynamic": a DynamicGroup
    usage,       \* how the caller drives a DynamicGroup: "once", "seq", "free"
    parentDone,  \* the ctx given to New / NewDynamic is cancelled
    cancel,      \* g.cancel has been called
    errOnce,     \* g.errOnce: "free", "running" (inside Do), "done"
    onceOwner,   \* the goroutine whose call of errOnce.Do ran the function (0: none)
    err,         \* g.err
    wg,          \* Group.wg counter
    funcs,       \* len(g.funcs)
    count,       \* DynamicGroup.count
    apc,         \* per goroutine: its position
    ret,         \* per goroutine: the (v, err) its func returned
    values,      \* the values slice of the running / last Wait
    src,         \* DynamicGroup.Wait: the goroutine each received value came from
    wpc,         \* position of the caller of Wait
    i,           \* loop index of Wait
    gpc,         \* position of the caller of Go
    tmp,         \* Go: the value of g.count read by g.count++
    launched,    \* number of goroutines started by Go
    result,      \* what the last returned Wait returned
    waits        \* number of Waits that have returned

vars == <<variant, usage, parentDone, cancel, errOnce, onceOwner, err, wg, funcs,
          count, apc, ret, values, src, wpc, i, gpc, tmp, launched, result, waits>>

\* g.ctx, derived with context.WithCancel(ctx): done when cancelled itself or
\* when its parent is
ctx == cancel \/ parentDone

\* make([]V, n)
MakeValues(n) == [k \in 1..n |-> 0]

NoResult == [ok |-> FALSE, vals |-> <<>>, err |-> 0]

----------------------------------------------------------------------------
(* Construction *)

\* New(ctx, funcs...) with a non-empty list
New(n) ==
    /\ variant = "fixed"
    /\ usage = "once"
    /\ funcs = n
    /\ wg = n
    /\ count = 0

\* NewDynamic(ctx)
NewDynamic ==
    /\ variant = "dynamic"
    /\ usage \in {"once", "seq", "turns", "free"}
    /\ funcs = 0
    /\ wg = 0
    /\ count = 0

Init ==
    /\ parentDone = FALSE
    /\ cancel = FALSE
    /\ errOnce = "free"
    /\ onceOwner = 0
    /\ err = 0
    /\ apc = [k \in Tasks |-> "none"]
    /\ ret = [k \in Tasks |-> [v |-> 0, e |-> 0]]
    /\ values = <<>>
    /\ src = <<>>
    /\ wpc = "idle"
    /\ i = 0
    /\ gpc = "idle"
    /\ tmp = 0
    /\ launched = 0
    /\ result = NoResult
    /\ waits = 0
    /\ \/ \E n \in 1..MaxTasks : New(n)
       \/ NewDynamic

InitOnce == Init /\ usage = "once"
InitSeq == Init /\ usage = "seq" /\ variant = "dynamic"
InitFree == Init /\ usage = "free" /\ variant = "dynamic"
InitTurns == Init /\ usage = "turns" /\ variant = "dynamic"

\* the caller's ctx is cancelled by whoever holds its cancel function
CancelParent ==
    /\ ~parentDone
    /\ parentDone' = TRUE
    /\ UNCHANGED <<variant, usage, cancel, errOnce, onceOwner, err, wg, funcs,
                   count, apc, ret, values, src, wpc, i, gpc, tmp, launched,
                   result, waits>>

----------------------------------------------------------------------------
(* The code shared, line for line, by the goroutines of both groups *)

FailedAlways(e) == TRUE
\* err != nil
Failed(e) == e # 0

OnceReturnsEarly(o) == o # "free"
\* sync.Once.Do called when the function has already been handed to another
\* caller: it returns only once that call of the function has returned
OnceReturns(o) == o = "done"

CancelNoop == cancel
\* the state of g.ctx's own cancellation after g.cancel() has been called
Cancelled == TRUE

\* the func of goroutine k returns (v, e); any func is allowed, also one that
\* watches ctx, so the pair is unconstrained
FuncReturns(k, v, e, next) ==
    /\ apc[k] = "run"
    /\ ret' = [ret EXCEPT ![k] = [v |-> v, e |-> e]]
    /\ apc' = [apc EXCEPT ![k] = IF Failed(e) THEN "once" ELSE next]
    /\ UNCHANGED <<variant, usage, parentDone, cancel, errOnce, onceOwner, err,
                   wg, funcs, count, values, src, wpc, i, gpc, tmp, launched,
                   result, waits>>

ErrShadowed(e) == err
\* g.err = err: what the function given to errOnce.Do leaves in g.err
ErrWritten(e) == e

OnceAgain(o) == o # "running"
\* sync.Once.Do calls the function for the first caller only, over the whole
\* life of the Once
OnceFirst(o) == o = "free"

\* g.errOnce.Do(func() { g.err = err; ... }) by the first caller
OnceDo(k) ==
    /\ apc[k] = "once"
    /\ OnceFirst(errOnce)
    /\ errOnce' = "running"
    /\ onceOwner' = k
    /\ err' = ErrWritten(ret[k].e)
    /\ apc' = [apc EXCEPT ![k] = "cancel"]
    /\ UNCHANGED <<variant, usage, parentDone, cancel, wg, funcs, count, ret,
                   values, src, wpc, i, gpc, tmp, launched, result, waits>>

\* ... if g.cancel != nil { g.cancel() } }), the end of the function and of Do
OnceCancel(k, next) ==
    /\ apc[k] = "cancel"
    /\ cancel' = Cancelled
    /\ errOnce' = "done"
    /\ apc' = [apc EXCEPT ![k] = next]
    /\ UNCHANGED <<variant, usage, parentDone, onceOwner, err, wg, funcs, count,
                   ret, values, src, wpc, i, gpc, tmp, launched, result, waits>>

\* g.errOnce.Do by a later caller: the function is not called
OnceSkip(k, next) ==
    /\ apc[k] = "once"
    /\ errOnce # "free"
    /\ OnceReturns(errOnce)
    /\ apc' = [apc EXCEPT ![k] = next]
    /\ UNCHANGED <<variant, usage, parentDone, cancel, errOnce, onceOwner, err,
                   wg, funcs, count, ret, values, src, wpc, i, gpc, tmp,
                   launched, result, waits>>

----------------------------------------------------------------------------
(* Group (grouper.go) *)

StoreIndexShared(k) == funcs
\* i, f := i, f: each goroutine has its own copy of the loop index
StoreIndex(k) == k

WgOpenEarly(w) == w <= 1
\* g.wg.Wait() returns when the counter is zero
WgOpen(w) == w = 0

FStoresAnyway == "store"
\* where a goroutine of Group.Wait goes after errOnce.Do: the value is stored
\* in the else branch only
FAfterOnce == "defer"

\* values := make([]V, len(g.funcs))
FWait ==
    /\ variant = "fixed"
    /\ wpc = "idle"
    /\ waits = 0
    /\ values' = MakeValues(funcs)
    /\ i' = 1
    /\ wpc' = "launch"
    /\ UNCHANGED <<variant, usage, parentDone, cancel, errOnce, onceOwner, err,
                   wg, funcs, count, apc, ret, src, gpc, tmp, launched, result,
                   waits>>

\* for i, f := range g.funcs { go func() {...}() }
FLaunch ==
    /\ variant = "fixed"
    /\ wpc = "launch"
    /\ apc' = [apc EXCEPT ![i] = "run"]
    /\ launched' = launched + 1
    /\ i' = i + 1
    /\ wpc' = IF i = funcs THEN "wgwait" ELSE "launch"
    /\ UNCHANGED <<variant, usage, parentDone, cancel, errOnce, onceOwner, err,
                   wg, funcs, count, ret, values, src, gpc, tmp, result, waits>>

\* v, err := f(g.ctx); err != nil
FFunc(k) ==
    /\ variant = "fixed"
    /\ \E v \in Values, e \in Errors : FuncReturns(k, v, e, "store")

FOnceDo(k) == variant = "fixed" /\ OnceDo(k)

FOnceCancel(k) == variant = "fixed" /\ OnceCancel(k, FAfterOnce)

FOnceSkip(k) == variant = "fixed" /\ OnceSkip(k, FAfterOnce)

\* values[i] = v
FStore(k) ==
    /\ variant = "fixed"
    /\ apc[k] = "store"
    /\ values' = [values EXCEPT ![StoreIndex(k)] = ret[k].v]
    /\ apc' = [apc EXCEPT ![k] = "defer"]
    /\ UNCHANGED <<variant, usage, parentDone, cancel, errOnce, onceOwner, err,
                   wg, funcs, count, ret, src, wpc, i, gpc, tmp, launched,
                   result, waits>>

\* defer g.wg.Done()
FDone(k) ==
    /\ variant = "fixed"
    /\ apc[k] = "defer"
    /\ wg' = wg - 1
    /\ apc' = [apc EXCEPT ![k] = "done"]
    /\ UNCHANGED <<variant, usage, parentDone, cancel, errOnce, onceOwner, err,
                   funcs, count, ret, values, src, wpc, i, gpc, tmp, launched,
                   result, waits>>

\* g.wg.Wait()
FWgWait ==
    /\ variant = "fixed"
    /\ wpc = "wgwait"
    /\ WgOpen(wg)
    /\ wpc' = "cancel"
    /\ UNCHANGED <<variant, usage, parentDone, cancel, errOnce, onceOwner, err,
                   wg, funcs, count, apc, ret, values, src, i, gpc, tmp,
                   launched, result, waits>>

\* g.cancel()
FCancel ==
    /\ variant = "fixed"
    /\ wpc = "cancel"
    /\ cancel' = Cancelled
    /\ wpc' = "return"
    /\ UNCHANGED <<variant, usage, parentDone, errOnce, onceOwner, err, wg,
                   funcs, count, apc, ret, values, src, i, gpc, tmp, launched,
                   result, waits>>

\* return values, g.err
FReturn ==
    /\ variant = "fixed"
    /\ wpc = "return"
    /\ result' = [ok |-> TRUE, vals |-> values, err |-> err]
    /\ waits' = waits + 1
    /\ wpc' = "idle"
    /\ UNCHANGED <<variant, usage, parentDone, cancel, errOnce, onceOwner, err,
                   wg, funcs, count, apc, ret, values, src, i, gpc, tmp,
                   launched>>

NextFixed ==
    \/ FWait
    \/ FLaunch
    \/ \E k \in Tasks : FFunc(k)
    \/ \E k \in Tasks : FOnceDo(k)
    \/ \E k \in Tasks : FOnceCancel(k)
    \/ \E k \in Tasks : FOnceSkip(k)
    \/ \E k \in Tasks : FStore(k)
    \/ \E k \in Tasks : FDone(k)
    \/ FWgWait
    \/ FCancel
    \/ FReturn

NewNeverPanics(n) == FALSE
\* if len(funcs) == 0 { panic(...) }
NewPanics(n) == n = 0

WgAddOne(n) == 1
\* g.wg.Add(len(funcs))
WgAdd(n) == n

\* the caller is about to call New
InitNew ==
    /\ variant = "fixed"
    /\ usage = "once"
    /\ funcs = 0
    /\ wg = 0
    /\ count = 0
    /\ parentDone = FALSE
    /\ cancel = FALSE
    /\ errOnce = "free"
    /\ onceOwner = 0
    /\ err = 0
    /\ apc = [k \in Tasks |-> "none"]
    /\ ret = [k \in Tasks |-> [v |-> 0, e |-> 0]]
    /\ values = <<>>
    /\ src = <<>>
    /\ wpc = "new"
    /\ i = 0
    /\ gpc = "idle"
    /\ tmp = 0
    /\ launched = 0
    /\ result = NoResult
    /\ waits = 0

\* New(ctx, funcs...) with n funcs: it panics, or makes the Group, derives
\* g.ctx and adds n to g.wg
NewCall ==
    /\ variant = "fixed"
    /\ wpc = "new"
    /\ \E n \in 0..MaxTasks :
          /\ funcs' = n
          /\ IF NewPanics(n)
             THEN wpc' = "panic" /\ wg' = wg
             ELSE wpc' = "idle" /\ wg' = WgAdd(n)
    /\ UNCHANGED <<variant, usage, parentDone, cancel, errOnce, onceOwner, err,
                   count, apc, ret, values, src, i, gpc, tmp, launched, result,
                   waits>>

SpecNew == InitNew /\ [][NewCall \/ CancelParent \/ NextFixed]_vars

----------------------------------------------------------------------------
(* DynamicGroup (dynamic.go) *)

DepositZeroOnErr(r) == IF r.e # 0 THEN 0 ELSE r.v
\* g.valueChan <- v: the v the func returned, whatever err is
Deposit(r) == r.v

DrainCountShort(c) == IF c > 0 THEN c - 1 ELSE 0
\* make([]V, g.count): the number of receives Wait will do
DrainCount(c) == c

DReturnsOnErr == "done"
\* where a goroutine of Go goes after errOnce.Do: on to the send
DAfterOnce == "send"

\* g.valueChan, made unbuffered: the goroutines blocked in a send on it
valueChan == {k \in Tasks : apc[k] = "send"}

\* what the caller's program allows: "once" is Go any number of times and then
\* one Wait; "seq" is one caller calling Go and Wait in any order; "turns" is
\* one caller calling Go, Wait, Go, Wait, ... as TestDynamicGroup does; "free"
\* is Go and Wait called from two goroutines
MayGo ==
    CASE usage = "once" -> wpc = "idle" /\ waits = 0
      [] usage = "seq" -> wpc = "idle"
      [] usage = "turns" -> wpc = "idle" /\ count = 0
      [] OTHER -> TRUE

MayWait ==
    CASE usage = "once" -> gpc = "idle" /\ waits = 0
      [] usage = "seq" -> gpc = "idle"
      [] usage = "turns" -> gpc = "idle" /\ count = 1
      [] OTHER -> TRUE

AfterGoInline == "inline"
\* where the caller of Go is after the go statement: the func runs in the
\* new goroutine, and Go returns
AfterGo == "idle"

\* Go: g.count++, the read
DGo ==
    /\ variant = "dynamic"
    /\ gpc = "idle"
    /\ launched < MaxTasks
    /\ MayGo
    /\ tmp' = count
    /\ gpc' = "inc"
    /\ UNCHANGED <<variant, usage, parentDone, cancel, errOnce, onceOwner, err,
                   wg, funcs, count, apc, ret, values, src, wpc, i, launched,
                   result, waits>>

\* Go: g.count++, the write, and go func() {...}()
DGoLaunch ==
    /\ variant = "dynamic"
    /\ gpc = "inc"
    /\ count' = tmp + 1
    /\ launched' = launched + 1
    /\ apc' = [apc EXCEPT ![launched + 1] = "run"]
    /\ gpc' = AfterGo
    /\ UNCHANGED <<variant, usage, parentDone, cancel, errOnce, onceOwner, err,
                   wg, funcs, ret, values, src, wpc, i, tmp, result, waits>>

\* v, err := f(g.ctx); err != nil
DFunc(k) ==
    /\ variant = "dynamic"
    /\ \E v \in Values, e \in Errors : FuncReturns(k, v, e, "send")

DOnceDo(k) == variant = "dynamic" /\ OnceDo(k)

DOnceCancel(k) == variant = "dynamic" /\ OnceCancel(k, DAfterOnce)

DOnceSkip(k) == variant = "dynamic" /\ OnceSkip(k, DAfterOnce)

\* Wait: values := make([]V, g.count)
DWait ==
    /\ variant = "dynamic"
    /\ wpc = "idle"
    /\ waits < MaxWaits
    /\ MayWait
    /\ values' = MakeValues(DrainCount(count))
    /\ src' = <<>>
    /\ i' = 1
    /\ wpc' = "drain"
    /\ UNCHANGED <<variant, usage, parentDone, cancel, errOnce, onceOwner, err,
                   wg, funcs, count, apc, ret, gpc, tmp, launched, result, waits>>

\* values[i] = <-g.valueChan, meeting the send g.valueChan <- v of goroutine k
DRecv(k) ==
    /\ variant = "dynamic"
    /\ wpc = "drain"
    /\ i <= Len(values)
    /\ k \in valueChan
    /\ values' = [values EXCEPT ![i] = Deposit(ret[k])]
    /\ src' = Append(src, k)
    /\ i' = i + 1
    /\ apc' = [apc EXCEPT ![k] = "done"]
    /\ UNCHANGED <<variant, usage, parentDone, cancel, errOnce, onceOwner, err,
                   wg, funcs, count, ret, wpc, gpc, tmp, launched, result, waits>>

CountSubtract(c, n) == c - n
\* g.count = 0: the value of g.count after it, c being its value before and
\* n the number of values Wait has received
CountReset(c, n) == 0

\* the range loop is over; g.count = 0
DReset ==
    /\ variant = "dynamic"
    /\ wpc = "drain"
    /\ i > Len(values)
    /\ count' = CountReset(count, Len(values))
    /\ wpc' = "cancel"
    /\ UNCHANGED <<variant, usage, parentDone, cancel, errOnce, onceOwner, err,
                   wg, funcs, apc, ret, values, src, i, gpc, tmp, launched,
                   result, waits>>

\* g.cancel()
DCancel ==
    /\ variant = "dynamic"
    /\ wpc = "cancel"
    /\ cancel' = Cancelled
    /\ wpc' = "return"
    /\ UNCHANGED <<variant, usage, parentDone, errOnce, onceOwner, err, wg,
                   funcs, count, apc, ret, values, src, i, gpc, tmp, launched,
                   result, waits>>

\* return values, g.err
DReturn ==
    /\ variant = "dynamic"
    /\ wpc = "return"
    /\ result' = [ok |-> TRUE, vals |-> values, err |-> err]
    /\ waits' = waits + 1
    /\ wpc' = "idle"
    /\ UNCHANGED <<variant, usage, parentDone, cancel, errOnce, onceOwner, err,
                   wg, funcs, count, apc, ret, values, src, i, gpc, tmp,
                   launched>>

NextDynamic ==
    \/ DGo
    \/ DGoLaunch
    \/ \E k \in Tasks : DFunc(k)
    \/ \E k \in Tasks : DOnceDo(k)
    \/ \E k \in Tasks : DOnceCancel(k)
    \/ \E k \in Tasks : DOnceSkip(k)
    \/ DWait
    \/ \E k \in Tasks : DRecv(k)
    \/ DReset
    \/ DCancel
    \/ DReturn

----------------------------------------------------------------------------
(* Group whose Wait takes the context (src/unnamed/part_000) *)

\* New(funcs...) with a non-empty list: &Group[V]{funcs: funcs}
InitArg ==
    /\ variant = "argctx"
    /\ usage = "seq"
    /\ \E n \in 1..MaxTasks : funcs = n
    /\ wg = 0
    /\ count = 0
    /\ parentDone = FALSE
    /\ cancel = FALSE
    /\ errOnce = "free"
    /\ onceOwner = 0
    /\ err = 0
    /\ apc = [k \in Tasks |-> "none"]
    /\ ret = [k \in Tasks |-> [v |-> 0, e |-> 0]]
    /\ values = <<>>
    /\ src = <<>>
    /\ wpc = "idle"
    /\ i = 0
    /\ gpc = "idle"
    /\ tmp = 0
    /\ launched = 0
    /\ result = NoResult
    /\ waits = 0

\* Wait(ctx): ctx, cancel := context.WithCancel(ctx); g.wg.Add(len(g.funcs));
\* values := make([]V, len(g.funcs)).  The goroutines of an earlier Wait have
\* ended; those of this one, with their own v and err, are not started yet.
AWait ==
    /\ variant = "argctx"
    /\ wpc = "idle"
    /\ waits < MaxWaits
    /\ cancel' = FALSE
    /\ wg' = wg + funcs
    /\ values' = MakeValues(funcs)
    /\ apc' = [k \in Tasks |-> "none"]
    /\ launched' = 0
    /\ i' = 1
    /\ wpc' = "launch"
    /\ UNCHANGED <<variant, usage, parentDone, errOnce, onceOwner, err, funcs,
                   count, ret, src, gpc, tmp, result, waits>>

\* for i, f := range g.funcs { go func() {...}() }
ALaunch ==
    /\ variant = "argctx"
    /\ wpc = "launch"
    /\ apc' = [apc EXCEPT ![i] = "run"]
    /\ launched' = launched + 1
    /\ i' = i + 1
    /\ wpc' = IF i = funcs THEN "wgwait" ELSE "launch"
    /\ UNCHANGED <<variant, usage, parentDone, cancel, errOnce, onceOwner, err,
                   wg, funcs, count, ret, values, src, gpc, tmp, result, waits>>

\* v, err := f(ctx); err != nil.  The funcs are those of TestZeroGroup,
\* func(context.Context) (error, error) { return err, err }: V is error
AFunc(k) ==
    /\ variant = "argctx"
    /\ \E e \in Errors : FuncReturns(k, e, e, "store")

AOnceDo(k) == variant = "argctx" /\ OnceDo(k)

AOnceCancel(k) == variant = "argctx" /\ OnceCancel(k, "store")

AOnceSkip(k) == variant = "argctx" /\ OnceSkip(k, "store")

\* values[i] = v, after the if
AStore(k) ==
    /\ variant = "argctx"
    /\ apc[k] = "store"
    /\ values' = [values EXCEPT ![k] = ret[k].v]
    /\ apc' = [apc EXCEPT ![k] = "defer"]
    /\ UNCHANGED <<variant, usage, parentDone, cancel, errOnce, onceOwner, err,
                   wg, funcs, count, ret, src, wpc, i, gpc, tmp, launched,
                   result, waits>>

\* defer g.wg.Done(); the goroutine ends, and its v and err with it
ADone(k) ==
    /\ variant = "argctx"
    /\ apc[k] = "defer"
    /\ wg' = wg - 1
    /\ apc' = [apc EXCEPT ![k] = "done"]
    /\ ret' = [ret EXCEPT ![k] = [v |-> 0, e |-> 0]]
    /\ UNCHANGED <<variant, usage, parentDone, cancel, errOnce, onceOwner, err,
                   funcs, count, values, src, wpc, i, gpc, tmp, launched,
                   result, waits>>

\* g.wg.Wait()
AWgWait ==
    /\ variant = "argctx"
    /\ wpc = "wgwait"
    /\ WgOpen(wg)
    /\ wpc' = "return"
    /\ UNCHANGED <<variant, usage, parentDone, cancel, errOnce, onceOwner, err,
                   wg, funcs, count, apc, ret, values, src, i, gpc, tmp,
                   launched, result, waits>>

\* return values, g.err, and the deferred cancel()
AReturn ==
    /\ variant = "argctx"
    /\ wpc = "return"
    /\ result' = [ok |-> TRUE, vals |-> values, err |-> err]
    /\ cancel' = Cancelled
    /\ waits' = waits + 1
    /\ wpc' = "idle"
    /\ UNCHANGED <<variant, usage, parentDone, errOnce, onceOwner, err, wg,
                   funcs, count, apc, ret, values, src, i, gpc, tmp, launched>>

NextArg ==
    \/ AWait
    \/ ALaunch
    \/ \E k \in Tasks : AFunc(k)
    \/ \E k \in Tasks : AOnceDo(k)
    \/ \E k \in Tasks : AOnceCancel(k)
    \/ \E k \in Tasks : AOnceSkip(k)
    \/ \E k \in Tasks : AStore(k)
    \/ \E k \in Tasks : ADone(k)
    \/ AWgWait
    \/ AReturn

SpecArg == InitArg /\ [][CancelParent \/ NextArg]_vars

----------------------------------------------------------------------------

Next == CancelParent \/ NextFixed \/ NextDynamic

Spec == Init /\ [][Next]_vars

\* every goroutine that can take a step eventually does, every func returns,
\* and a call of Go or Wait that has begun runs on; whether and when the
\* caller calls Go or Wait is up to the caller
Fairness ==
    /\ \A k \in Tasks :
          /\ WF_vars(FFunc(k)) /\ WF_vars(FOnceDo(k)) /\ WF_vars(FOnceCancel(k))
          /\ WF_vars(FOnceSkip(k)) /\ WF_vars(FStore(k)) /\ WF_vars(FDone(k))
          /\ WF_vars(DFunc(k)) /\ WF_vars(DOnceDo(k)) /\ WF_vars(DOnceCancel(k))
          /\ WF_vars(DOnceSkip(k)) /\ WF_vars(DRecv(k))
    /\ WF_vars(FLaunch) /\ WF_vars(FWgWait) /\ WF_vars(FCancel) /\ WF_vars(FReturn)
    /\ WF_vars(DGoLaunch) /\ WF_vars(DReset) /\ WF_vars(DCancel) /\ WF_vars(DReturn)

LiveSpec == Spec /\ Fairness
SpecOnce == InitOnce /\ [][Next]_vars
LiveOnce == SpecOnce /\ Fairness
SpecSeq == InitSeq /\ [][CancelParent \/ NextDynamic]_vars
SpecFree == InitFree /\ [][CancelParent \/ NextDynamic]_vars
LiveTurns == InitTurns /\ [][CancelParent \/ NextDynamic]_vars /\ Fairness
\* Go and Wait racing, the caller's ctx left alone
SpecRace == InitFree /\ [][NextDynamic]_vars

TypeOK ==
    /\ variant \in {"fixed", "dynamic", "argctx"}
    /\ usage \in {"once", "seq", "turns", "free"}
    /\ parentDone \in BOOLEAN /\ cancel \in BOOLEAN
    /\ errOnce \in {"free", "running", "done"}
    /\ onceOwner \in 0..MaxTasks
    /\ err \in Errors
    /\ wg \in 0..MaxTasks
    /\ funcs \in 0..MaxTasks
    /\ count \in 0..MaxTasks
    /\ apc \in [Tasks -> {"none", "run", "once", "cancel", "store", "defer", "send", "done"}]
    /\ \A k \in Tasks : ret[k].v \in Values \cup Errors /\ ret[k].e \in Errors
    /\ Len(values) <= MaxTasks
    /\ wpc \in {"new", "panic", "idle", "launch", "wgwait", "drain", "cancel",
                "return"}
    /\ gpc \in {"idle", "inc"}
    /\ launched \in 0..MaxTasks
    /\ waits \in 0..MaxWaits

----------------------------------------------------------------------------
(* Properties.  SpecOnce is a group used as documented: New and one Wait,   *)
(* or NewDynamic, any number of Go and then one Wait.                       *)

\* the func of goroutine k has returned
Returned(k) == apc[k] \notin {"none", "run"}

\* the goroutines whose func returned a non-nil error
FailedTasks == {k \in Tasks : Returned(k) /\ ret[k].e # 0}

\* C1: the error Wait returns is nil exactly when no func returned a non-nil
\* error, and otherwise it is the error of one failing func, the one whose
\* call of errOnce.Do ran the function
C1_WaitError ==
    result.ok =>
        /\ (result.err = 0) <=> (FailedTasks = {})
        /\ FailedTasks # {} =>
              /\ onceOwner \in FailedTasks
              /\ result.err = ret[onceOwner].e

\* two funcs failed with different errors and the second one's error came out
C1_Witness ==
    /\ result.ok
    /\ FailedTasks = {1, 2}
    /\ ret[1].e # ret[2].e
    /\ result.err = ret[2].e

\* C2: once Wait has returned, the derived context is done, whether or not a
\* func failed
C2_CtxDoneAfterWait == waits > 0 => ctx

\* a DynamicGroup without any Go, its parent alive, whose Wait has returned
C2_Witness ==
    /\ variant = "dynamic"
    /\ waits > 0
    /\ launched = 0
    /\ ~parentDone

\* C3: Group, every func succeeding: Wait returns len(funcs) values, the
\* value at index k being the one the k-th func returned, and a nil error
C3_FixedAllSucceed ==
    (variant = "fixed" /\ result.ok /\ FailedTasks = {}) =>
        /\ Len(result.vals) = funcs
        /\ \A k \in 1..funcs : result.vals[k] = ret[k].v
        /\ result.err = 0

\* two funcs that returned different values, both without error
C3_Witness ==
    /\ variant = "fixed"
    /\ result.ok
    /\ funcs = 2
    /\ FailedTasks = {}
    /\ ret[1].v = 1
    /\ ret[2].v = 0

\* C4: DynamicGroup, K calls of Go and then Wait: Wait returns K values, one
\* received from each goroutine whether its func failed or not; with K = 0
\* the values are empty and the error is nil
C4_DynamicCount ==
    (variant = "dynamic" /\ result.ok) =>
        /\ Len(result.vals) = launched
        /\ Len(src) = launched
        /\ \A k \in 1..launched : Cardinality({j \in 1..Len(src) : src[j] = k}) = 1
        /\ launched = 0 => (result.vals = <<>> /\ result.err = 0)

\* two goroutines, received in the reverse order, the second having failed
C4_Witness ==
    /\ variant = "dynamic"
    /\ result.ok
    /\ src = <<2, 1>>
    /\ ret[2].e # 0

\* every goroutine that was started has run to its end
AllDone ==
    /\ \A k \in Tasks : apc[k] \in {"none", "done"}
    /\ variant = "fixed" => launched = funcs

\* C5: a Wait that has been called returns, and by then no goroutine is left
\* running or blocked
C5_WaitReturns == (wpc # "idle") ~> (result.ok /\ AllDone)

\* Wait is blocked in its receive on a cancelled group while a func still runs
C5_Witness ==
    /\ wpc = "drain"
    /\ i <= Len(values)
    /\ valueChan = {}
    /\ cancel
    /\ \E k \in Tasks : apc[k] = "run"

\* C6: when Wait reads g.err and when it has returned, every goroutine it
\* started has finished, its func returned and its error recorded
C6_WaitNotEarly == (wpc \in {"cancel", "return"} \/ result.ok) => AllDone

\* Wait is about to return; the parent was cancelled, two funcs ran on and
\* succeeded all the same
C6_Witness ==
    /\ wpc = "return"
    /\ parentDone
    /\ launched = 2
    /\ FailedTasks = {}

\* C7: a goroutine whose func failed has signalled its end (wg.Done, or its
\* value received) only when the derived context is already cancelled
C7_FailureCancelsFirst ==
    \A k \in Tasks : (apc[k] = "done" /\ ret[k].e # 0) => cancel

\* a goroutine that failed and lost errOnce has ended while Wait still waits
C7_Witness ==
    /\ \E k \in Tasks : apc[k] = "done" /\ ret[k].e # 0 /\ onceOwner \notin {0, k}
    /\ wpc \in {"wgwait", "drain"}
    /\ \E k \in Tasks : apc[k] \notin {"none", "done"}

\* Wait has everything it waits for: the wg barrier is passed, or the values
\* are all received
Collected == wpc \in {"cancel", "return"} \/ waits > 0

\* C8: with the parent context alive, the derived context is not done as
\* long as no func has returned a non-nil error and Wait is still collecting
C8_NoSpuriousCancel ==
    (~parentDone /\ FailedTasks = {} /\ ~Collected) => ~ctx

\* a func has succeeded and its goroutine ended, Wait waits for another one,
\* and the context is still alive
C8_Witness ==
    /\ ~parentDone
    /\ FailedTasks = {}
    /\ wpc \in {"wgwait", "drain"}
    /\ \E k \in Tasks : apc[k] = "done"
    /\ \E k \in Tasks : apc[k] = "run"
    /\ ~ctx

\* C9: Group: Wait returns len(funcs) values; at the index of a func that
\* failed is the zero value, whatever value it returned with its error, and
\* at the index of a func that succeeded is its value
C9_FixedSparse ==
    (variant = "fixed" /\ result.ok) =>
        /\ Len(result.vals) = funcs
        /\ \A k \in 1..funcs :
              result.vals[k] = IF ret[k].e # 0 THEN 0 ELSE ret[k].v

\* one func returned (1, err), the other (1, nil)
C9_Witness ==
    /\ variant = "fixed"
    /\ result.ok
    /\ \E k \in Tasks : ret[k].e # 0 /\ ret[k].v = 1
    /\ \E k \in Tasks : Returned(k) /\ ret[k].e = 0 /\ ret[k].v = 1

\* C10 as stated: DynamicGroup: the value Wait received from a goroutine
\* whose func failed is the zero value
C10_ZeroOnError ==
    variant = "dynamic" =>
        \A j \in 1..Len(src) : ret[src[j]].e # 0 => values[j] = 0

\* C10 amended: DynamicGroup: the value Wait received from a goroutine is
\* the value its func returned, also when the func returned an error with it
C10_DepositsReturned ==
    variant = "dynamic" =>
        \A j \in 1..Len(src) : values[j] = ret[src[j]].v

\* Wait has returned a non-zero value that came with an error
C10_Witness ==
    /\ variant = "dynamic"
    /\ result.ok
    /\ \E j \in 1..Len(src) : ret[src[j]].e # 0 /\ result.vals[j] = 1

----------------------------------------------------------------------------
(* Properties of a DynamicGroup driven as Go, Wait, Go, Wait, ...           *)
(* (LiveTurns)                                                              *)

\* the error of the first func, in the order of the calls of Go, that
\* returned a non-nil error; nil if there is none
FirstErr ==
    LET F == {k \in 1..launched : ret[k].e # 0}
    IN  IF F = {} THEN 0 ELSE ret[CHOOSE k \in F : \A j \in F : k <= j].e

\* C11: Go, Wait, Go, Wait, ...: every Wait returns, with the error of the
\* first func in submission order that failed (nil if none has), and after a
\* Wait has returned a non-nil error every later Wait returns that same error
C11_TurnsFirstError ==
    /\ [](( wpc = "idle" /\ gpc = "idle" /\ count = 0 /\ waits > 0)
              => result.err = FirstErr)
    /\ [][(result.ok /\ result.err # 0) => result'.err = result.err]_vars
    /\ (wpc # "idle") ~> (wpc = "idle")

\* the second Wait has returned the error of the first func although the
\* second func failed with another error
C11_Witness ==
    /\ usage = "turns"
    /\ waits = 2
    /\ wpc = "idle"
    /\ ret[1].e = 1
    /\ ret[2].e = 2
    /\ apc[2] = "done"
    /\ result.err = 1

----------------------------------------------------------------------------
(* Properties of the Group whose Wait takes the context (SpecArg) *)

\* C12: Wait(ctx) can be called again and again (the wg counter is back at
\* zero after each Wait and never negative), and once a Wait has returned a
\* non-nil error every later Wait returns that same error
C12_ArgStickyError ==
    /\ [](wg >= 0 /\ wg <= funcs /\ (wpc = "idle" => wg = 0))
    /\ [][(result.ok /\ result.err # 0) => result'.err = result.err]_vars

\* the first Wait returned an error; in the second Wait every func succeeded,
\* and it returned that error again
C12_Witness ==
    /\ variant = "argctx"
    /\ waits = 2
    /\ wpc = "idle"
    /\ result.err # 0
    /\ funcs = 2
    /\ \A k \in 1..funcs : apc[k] = "done" /\ result.vals[k] = 0

----------------------------------------------------------------------------
(* More properties of a group used as documented (SpecOnce) *)

\* the goroutines that have been started
Started == {k \in Tasks : apc[k] # "none"}

\* C13: DynamicGroup.Go never waits: a call that has begun can always go on,
\* whatever the earlier goroutines do and with no receiver on valueChan, it
\* starts exactly one goroutine, and before Wait is called a further Go can
\* always be called
C13_GoNonBlocking ==
    variant = "dynamic" =>
        /\ gpc # "idle" => ENABLED DGoLaunch
        /\ (gpc = "idle" /\ wpc = "idle" /\ waits = 0 /\ launched < MaxTasks)
              => ENABLED DGo
        /\ Started = 1..launched
        /\ (gpc = "idle" /\ wpc = "idle" /\ waits = 0) => count = launched

\* two calls of Go have returned before any Wait; the first goroutine is
\* blocked in its send, the func of the second still runs
C13_Witness ==
    /\ variant = "dynamic"
    /\ waits = 0
    /\ wpc = "idle"
    /\ gpc = "idle"
    /\ launched = 2
    /\ apc[1] = "send"
    /\ apc[2] = "run"

----------------------------------------------------------------------------
(* Properties of New followed by Wait (SpecNew) *)

\* C14: New with an empty list panics and with a non-empty list it does not;
\* after the panic there is no Group: nothing is ever started, cancelled or
\* returned, and nothing but the caller's own context changes any more
C14_EmptyNewPanics ==
    /\ [](wpc # "new" => (wpc = "panic" <=> funcs = 0))
    /\ [](wpc = "panic" =>
            /\ Started = {} /\ launched = 0
            /\ wg = 0 /\ ~cancel /\ err = 0 /\ ~result.ok)
    /\ [][wpc = "panic" =>
            UNCHANGED <<variant, usage, cancel, errOnce, onceOwner, err, wg,
                        funcs, count, apc, ret, values, src, wpc, i, gpc, tmp,
                        launched, result, waits>>]_vars

\* New has panicked on an empty list, and later the caller's ctx was cancelled
C14_Witness ==
    /\ wpc = "panic"
    /\ funcs = 0
    /\ parentDone

\* C17: Group: no func is started by New or before Wait is called; Wait
\* starts one goroutine per func, the k-th at the k-th turn of its loop and
\* never again; the wg counter is len(funcs) minus the goroutines that have
\* ended, so it is never negative and is zero exactly when all have ended
C17_OneActivityPerFunc ==
    /\ []( /\ (wpc \in {"new", "panic"} \/ (wpc = "idle" /\ waits = 0))
                => (Started = {} /\ launched = 0)
           /\ Started = 1..launched
           /\ launched <= funcs
           /\ (wpc \in {"wgwait", "cancel", "return"} \/ waits > 0)
                => launched = funcs
           /\ wpc \notin {"new", "panic"} =>
                /\ wg = funcs - Cardinality({k \in Tasks : apc[k] = "done"})
                /\ wg >= 0
                /\ wg = 0 <=> \A k \in 1..funcs : apc[k] = "done" )
    /\ [][\A k \in Tasks :
            (apc'[k] = "run" /\ apc[k] # "run")
                => (apc[k] = "none" /\ wpc = "launch" /\ i = k)]_vars

\* both goroutines of a Group of two funcs have ended: the counter is zero,
\* and Wait has not yet passed g.wg.Wait()
C17_Witness ==
    /\ funcs = 2
    /\ wpc = "wgwait"
    /\ wg = 0
    /\ apc[1] = "done"
    /\ apc[2] = "done"

----------------------------------------------------------------------------
(* Properties of the error slot and of the values slice (SpecOnce) *)

\* C15: g.err is written at most once, from nil to the error of the
\* goroutine that took errOnce, and never again; only that goroutine is ever
\* inside the function given to errOnce.Do, so only it calls g.cancel from a
\* goroutine; a goroutine that fails later leaves g.err and the context alone
C15_WriteOnceError ==
    /\ [](\A k \in Tasks :
            apc[k] = "cancel" => (k = onceOwner /\ errOnce = "running"))
    /\ [](errOnce = "free" => (err = 0 /\ onceOwner = 0))
    /\ [][ /\ err' # err => (err = 0 /\ errOnce = "free" /\ err' = ret[onceOwner'].e)
           /\ onceOwner # 0 => onceOwner' = onceOwner
           /\ errOnce = "done" => errOnce' = "done"
           /\ \A k \in Tasks :
                (apc[k] = "once" /\ errOnce # "free" /\ apc'[k] # "once")
                    => (err' = err /\ cancel' = cancel /\ apc'[k] # "cancel") ]_vars

\* both funcs failed with different errors; the one that lost errOnce has
\* ended and g.err is the winner's error
C15_Witness ==
    /\ FailedTasks = {1, 2}
    /\ ret[1].e # ret[2].e
    /\ onceOwner = 1
    /\ apc[2] = "done"
    /\ err = ret[1].e
    /\ ~result.ok

\* C16: Group: the element k of values is changed only by the goroutine of
\* the k-th func, in its one store, after which that goroutine stores no
\* more; and when Wait goes on to return values every goroutine has ended
C16_SlotsNotContended ==
    /\ [][variant = "fixed" =>
            \A j \in (DOMAIN values) \cap (DOMAIN values') :
                values'[j] # values[j] => (apc[j] = "store" /\ apc'[j] = "defer")]_vars
    /\ [][\A k \in Tasks :
            apc[k] \in {"defer", "done"} => apc'[k] \in {"defer", "done"}]_vars
    /\ []((variant = "fixed" /\ (wpc \in {"cancel", "return"} \/ result.ok))
            => \A k \in 1..funcs : apc[k] = "done")

\* the first goroutine has stored its value, the second is about to
C16_Witness ==
    /\ variant = "fixed"
    /\ funcs = 2
    /\ apc[1] = "defer"
    /\ values[1] = 1
    /\ apc[2] = "store"
    /\ ret[2].v = 1
    /\ values[2] = 0

----------------------------------------------------------------------------
(* Properties of a DynamicGroup used again after Wait (SpecSeq) or with Go  *)
(* and Wait racing (SpecRace)                                               *)

\* the goroutines that were started and whose value has not been received
Pending == {k \in Tasks : apc[k] \notin {"none", "done"}}

\* the receives the running Wait still has to do
Remaining == IF wpc = "drain" THEN Len(values) - (i - 1) ELSE 0

\* C18: one caller, no Go during Wait: outside Wait, g.count is the number of
\* goroutines whose value has not been received; a Wait receives exactly
\* those, so that when it returns count is 0 and no goroutine is left running
\* or blocked, and a Wait called with nothing new submitted has nothing to
\* receive and goes on at once
C18_CountIsPending ==
    variant = "dynamic" =>
        /\ wpc = "idle" => count = Cardinality(Pending)
        /\ wpc = "drain" => Remaining = Cardinality(Pending)
        /\ wpc \in {"cancel", "return"} => (count = 0 /\ Pending = {})
        /\ (wpc = "drain" /\ Pending = {}) => (Remaining = 0 /\ ENABLED DReset)

\* after two calls of Go and a Wait, a second Wait has returned no values
C18_Witness ==
    /\ usage = "seq"
    /\ waits = 2
    /\ wpc = "idle"
    /\ launched = 2
    /\ count = 0
    /\ result.vals = <<>>

\* the goroutines beyond those the running Wait will receive
Excess == Cardinality(Pending) - Remaining

\* goroutine k is left over: its value is not received, g.count does not
\* count it, and no Wait is going to receive anything
Leaked(k) == k \in Pending /\ count = 0 /\ gpc = "idle" /\ Remaining = 0

\* a call of Go writes g.count and starts its goroutine after Wait has made
\* values and before Wait resets g.count, having read the g.count Wait saw
WindowGo ==
    /\ gpc = "inc" /\ gpc' = "idle"
    /\ wpc = "drain"
    /\ tmp = count
    /\ Excess >= 0

\* C19: a Go between Wait's make([]V, g.count) and its g.count = 0 starts a
\* goroutine beyond those Wait receives; Wait still receives just len(values)
\* values; g.count = 0 then drops the increment, which leaves a goroutine
\* that no Wait counts; and as long as no further Go is called it stays so,
\* a later Wait receiving nothing
C19_GoDuringWaitLeaks ==
    [][ /\ WindowGo => (wpc' = "drain" /\ Len(values') = Len(values) /\ Excess' >= 1)
        /\ (wpc = "drain" /\ wpc' = "drain" /\ Excess >= 1) => Excess' >= 1
        /\ (wpc = "drain" /\ wpc' = "cancel") =>
              /\ Len(src) = Len(values)
              /\ count' = 0
              /\ (Excess >= 1 /\ gpc = "idle") => \E k \in Tasks : Leaked(k)'
        /\ \A k \in Tasks : (Leaked(k) /\ gpc' = "idle") => Leaked(k)' ]_vars

\* the one Go ran during the first Wait; a second Wait has returned without
\* values, and the goroutine is still blocked in its send
C19_Witness ==
    /\ usage = "free"
    /\ waits = 2
    /\ wpc = "idle"
    /\ gpc = "idle"
    /\ launched = 1
    /\ apc[1] = "send"
    /\ count = 0
    /\ result.vals = <<>>

\* the goroutines whose func failed and whose call of errOnce.Do has returned
Recorded == {k \in Tasks : ret[k].e # 0 /\ apc[k] \in {"send", "done"}}

\* C20 as stated: g.ctx is never un-cancelled, and a Go that is about to
\* start its goroutine after a Wait has returned, or after a func has
\* returned a non-nil error, hands it a context that is done
C20_LateGoSeesDone ==
    (variant = "dynamic" /\ gpc = "inc" /\ (waits > 0 \/ FailedTasks # {}))
        => ctx

\* C20 amended: g.ctx is never un-cancelled, and a Go that is about to start
\* its goroutine after a Wait has returned, or after the errOnce.Do of a
\* goroutine whose func failed has returned, hands it a context that is done
C20_LateGoSeesDoneRecorded ==
    /\ [][cancel => cancel']_vars
    /\ []((variant = "dynamic" /\ gpc = "inc" /\ (waits > 0 \/ Recorded # {}))
            => ctx)

\* a Wait has returned without any failure and the parent is alive; a second
\* Go is about to start its goroutine
C20_Witness ==
    /\ usage = "seq"
    /\ gpc = "inc"
    /\ waits = 1
    /\ launched = 1
    /\ FailedTasks = {}
    /\ ~parentDone
    /\ cancel

====
